---- MODULE Spec2Model ----
(***************************************************************************)
(* The retrieval-guardrail pipeline of scripts/rag_with_guardrails.py:     *)
(* InputValidator, RetrievalGuardrails, OutputValidator and the            *)
(* orchestrator RAGWithGuardrails.query_with_guardrails.                   *)
(*                                                                         *)
(* Text is a sequence of one-character strings, so that strip, lower,      *)
(* slicing, "in" and split are computed the way Python computes them.      *)
(* The alphabet is ASCII: the source's accented letters are written        *)
(* without the accent, its cross mark as "#" and its check mark as "+".    *)
(* Distances and thresholds are integers in hundredths (0.35 is 35).       *)
(* None is the model's value for Python's None.                            *)
(***************************************************************************)
EXTENDS Integers, Sequences, FiniteSets, TLC

VARIABLES
    threshold_mode,        \* __init__ argument
    custom_threshold,      \* __init__ argument (None when not given)
    similarity_threshold,  \* self.similarity_threshold
    pc,                    \* position of the run inside query_with_guardrails
    query,                 \* argument: the raw query
    template_mode,         \* argument
    detailed_metadata,     \* argument
    sanitized_query,       \* local
    results,               \* what similarity_search_with_score answered
    filtered_docs,         \* local
    context,               \* local
    raw_response,          \* local
    result,                \* the result dict under construction / returned
    index_query,           \* what similarity_search_with_score was called with
    prompt,                \* what llm.invoke was called with
    calls,                 \* per run: calls of the index, the generator, the output validator
    log,                   \* lines emitted through logger during the run
    raised,                \* the exception that left query_with_guardrails, if one did
    tracked,               \* observer: the validate_response arguments it follows
    recorded,              \* observer: what the first call with them returned
    suspended              \* the locals of a second call of query_with_guardrails,
                           \* running in another thread, while it is not scheduled

vars == <<threshold_mode, custom_threshold, similarity_threshold, pc, query,
          template_mode, detailed_metadata, sanitized_query, results,
          filtered_docs, context, raw_response, result, index_query, prompt, calls, log,
          raised, tracked, recorded, suspended>>

\* the observer of OutputValidator.validate_response's calls; the program
\* neither reads nor writes it
observer == <<tracked, recorded>>

\* Optional values: None is the empty sequence, a present value v is <<v>>
None == <<>>

Some(v) == <<v>>

\* ------------------------------------------------------------------ text

\* the characters of a string literal
Chars(s) == [i \in 1..Len(s) |-> SubSeq(s, i, i)] \o <<>>

Rep(c, n) == [i \in 1..n |-> c] \o <<>>

SetMin(S) == CHOOSE x \in S : \A y \in S : x <= y

SetMax(S) == CHOOSE x \in S : \A y \in S : x >= y

\* str.strip() with no argument strips whitespace
Whitespace == {" ", "\t", "\n", "\r", "\f"}

\* s.strip(chars): drop the leading and trailing characters that are in chars
StripChars(s, chars) ==
    IF \A i \in 1..Len(s) : s[i] \in chars THEN <<>>
    ELSE LET first == CHOOSE i \in 1..Len(s) :
                          s[i] \notin chars /\ \A j \in 1..(i - 1) : s[j] \in chars
             last == CHOOSE i \in 1..Len(s) :
                          s[i] \notin chars /\ \A j \in (i + 1)..Len(s) : s[j] \in chars
         IN  SubSeq(s, first, last)

Strip(s) == StripChars(s, Whitespace)

UpperCase == Chars("ABCDEFGHIJKLMNOPQRSTUVWXYZ")

LowerCase == Chars("abcdefghijklmnopqrstuvwxyz")

ToLower == [c \in {UpperCase[i] : i \in 1..Len(UpperCase)} |->
               LowerCase[CHOOSE i \in 1..Len(UpperCase) : UpperCase[i] = c]]

LowerChar(c) == IF c \in DOMAIN ToLower THEN ToLower[c] ELSE c

\* str.lower()
Lower(s) == [i \in 1..Len(s) |-> LowerChar(s[i])] \o <<>>

\* p in s
Contains(s, p) ==
    \E i \in 0..(Len(s) - Len(p)) : \A j \in 1..Len(p) : s[i + j] = p[j]

\* s[:n]
Prefix(s, n) == SubSeq(s, 1, IF Len(s) < n THEN Len(s) ELSE n)

\* set(s.split()): the maximal runs of non-whitespace characters
Words(s) ==
    LET starts == {i \in 1..Len(s) :
                      s[i] \notin Whitespace /\ (i = 1 \/ s[i - 1] \in Whitespace)}
        stop(i) == CHOOSE j \in i..Len(s) :
                      /\ j = Len(s) \/ s[j + 1] \in Whitespace
                      /\ \A k \in i..j : s[k] \notin Whitespace
    IN  {SubSeq(s, i, stop(i)) : i \in starts}

Digits == Chars("0123456789")

\* str(n) for n >= 0
RECURSIVE IntToStr(_)
IntToStr(n) ==
    IF n < 10 THEN <<Digits[n + 1]>>
    ELSE IntToStr(n \div 10) \o <<Digits[(n % 10) + 1]>>

\* ------------------------------------------------------------------ GuardrailConfig

SIMILARITY_THRESHOLD_STRICT == 25

SIMILARITY_THRESHOLD_BALANCED == 35

SIMILARITY_THRESHOLD_PERMISSIVE == 50

MIN_CONTEXT_LENGTH == 50

MAX_CHUNKS_RETRIEVED == 12

MIN_CHUNKS_REQUIRED == 1

NO_CONTEXT_MESSAGE ==
    Chars("# Nao encontrei informacoes relevantes no contexto disponivel.")

\* ------------------------------------------------------------------ InputValidator

MIN_QUERY_LENGTH == 3

MAX_QUERY_LENGTH == 500

REASON_EMPTY == Chars("Query vazia")

REASON_TOO_SHORT == Chars("Query muito curta (minimo 3 caracteres)")

REASON_TRUNCATED == Chars("Query truncada (maximo 500 caracteres)")

REASON_SUSPICIOUS == Chars("Padrao suspeito detectado: ")

injection_patterns ==
    << Chars("ignore previous instructions"),
       Chars("forget everything"),
       Chars("act as"),
       Chars("pretend to be"),
       Chars("system:"),
       Chars("assistant:") >>

\* the patterns found in the lowercased query, by their place in the list
MatchedPatterns(q) ==
    LET query_lower == Lower(q)
    IN  {i \in 1..Len(injection_patterns) : Contains(query_lower, injection_patterns[i])}

\* mutant: no query is too long
TooLongQuery_never(q) == FALSE

\* mutant: <= for <, a query of 3 characters is too short
TooShortQuery_inclusive(q) == Len(q) <= MIN_QUERY_LENGTH

\* len(query) < 3
TooShortQuery(q) == Len(q) < MIN_QUERY_LENGTH

\* len(query) > 500
TooLongQuery(q) == Len(q) > MAX_QUERY_LENGTH

\* the branch of validate_query taken for a query longer than 500 characters
TooLongOutcome(q) ==
    [valid |-> FALSE, sanitized |-> Prefix(q, MAX_QUERY_LENGTH),
     reason |-> REASON_TRUNCATED, logs |-> <<>>]

\* (is_valid, sanitized_query, rejection_reason), and the lines logged
validate_query(raw) ==
    IF raw = <<>> \/ Strip(raw) = <<>>
    THEN [valid |-> FALSE, sanitized |-> <<>>, reason |-> REASON_EMPTY, logs |-> <<>>]
    ELSE LET q == Strip(raw) IN
         IF TooShortQuery(q)
         THEN [valid |-> FALSE, sanitized |-> q, reason |-> REASON_TOO_SHORT,
               logs |-> <<>>]
         ELSE IF TooLongQuery(q)
         THEN TooLongOutcome(q)
         ELSE IF MatchedPatterns(q) # {}
         THEN LET p == injection_patterns[SetMin(MatchedPatterns(q))]
              IN  [valid |-> FALSE, sanitized |-> q,
                   reason |-> REASON_SUSPICIOUS \o p,
                   logs |-> << <<"WARNING", "injection", p>> >>]
         ELSE [valid |-> TRUE, sanitized |-> q, reason |-> <<>>,
               logs |-> << <<"INFO", "query_validated", Prefix(q, 50)>> >>]

\* ------------------------------------------------------------------ RetrievalGuardrails

\* a Document: page_content and a metadata dict that may lack "source"
Doc(content, meta) == [page_content |-> content, metadata |-> meta]

\* doc.metadata.get('source', default)
SourceOf(doc, default) ==
    IF "source" \in DOMAIN doc.metadata THEN doc.metadata["source"] ELSE default

MIN_MEANINGFUL_LENGTH == 10

Punctuation == {".", ",", "!", "?", ";", ":", "\n", "\t", " "}

\* mutant: only the length is checked, not what is left without punctuation
_validate_chunk_quality_length_only(doc) ==
    Len(Strip(doc.page_content)) >= MIN_CONTEXT_LENGTH

_validate_chunk_quality(doc) ==
    LET content == Strip(doc.page_content) IN
    IF Len(content) < MIN_CONTEXT_LENGTH THEN FALSE
    ELSE IF Len(StripChars(content, Punctuation)) < MIN_MEANINGFUL_LENGTH THEN FALSE
    ELSE TRUE

\* threshold = threshold or SIMILARITY_THRESHOLD_BALANCED: None and 0 are falsy
ThresholdOrDefault(threshold) ==
    IF threshold = None \/ threshold = Some(0)
    THEN SIMILARITY_THRESHOLD_BALANCED
    ELSE threshold[1]

\* mutant: < for <=, a chunk at the threshold is rejected
WithinThreshold_exclusive(score, threshold) == score < threshold

\* score <= threshold
WithinThreshold(score, threshold) == score <= threshold

\* the decision logged for one (doc, score) of the results
ChunkDecision(r, threshold) ==
    IF WithinThreshold(r[2], threshold)
    THEN IF _validate_chunk_quality(r[1]) THEN "accepted" ELSE "rejected_quality"
    ELSE "rejected_threshold"

\* the loop over results: the accepted docs, in the order of the results
RECURSIVE FilterDocs(_, _)
FilterDocs(rs, threshold) ==
    IF rs = <<>> THEN <<>>
    ELSE LET r == Head(rs)
             rest == FilterDocs(Tail(rs), threshold)
         IN  IF ChunkDecision(r, threshold) = "accepted" THEN <<r[1]>> \o rest ELSE rest

RECURSIVE SeqSum(_)
SeqSum(s) == IF s = <<>> THEN 0 ELSE Head(s) + SeqSum(Tail(s))

SeqRange(s) == {s[i] : i \in 1..Len(s)}

\* a float that is a quotient of two integers: num / den
Ratio(n, d) == [num |-> n, den |-> d]

\* mutant: the rate of the accepted chunks, without the "1 -"
RejectionRate_accepted(n_filtered, n_results) ==
    IF n_results > 0 THEN Ratio(n_filtered, n_results) ELSE Ratio(0, 1)

\* 1 - (len(filtered_docs) / len(results)) if results else 0
RejectionRate(n_filtered, n_results) ==
    IF n_results > 0 THEN Ratio(n_results - n_filtered, n_results) ELSE Ratio(0, 1)

\* retrieve_with_threshold once the index has answered with rs (results):
\* (filtered_docs, metadata), and the lines logged
retrieve_with_threshold(rs, q, threshold_arg) ==
    LET threshold == ThresholdOrDefault(threshold_arg)
        scores == [i \in 1..Len(rs) |-> rs[i][2]]
        docs == FilterDocs(rs, threshold)
    IN  [docs |-> docs,
         metadata |->
            [total_retrieved |-> Len(rs),
             scores |-> scores,
             min_score |-> IF scores # <<>> THEN Some(SetMin(SeqRange(scores))) ELSE None,
             max_score |-> IF scores # <<>> THEN Some(SetMax(SeqRange(scores))) ELSE None,
             avg_score |-> IF scores # <<>>
                           THEN Some(Ratio(SeqSum(scores), Len(scores))) ELSE None,
             threshold_used |-> threshold,
             query |-> q,
             filtered_count |-> Len(docs),
             rejection_rate |-> RejectionRate(Len(docs), Len(rs))],
         logs |-> [i \in 1..Len(rs) |->
                      <<"chunk", ChunkDecision(rs[i], threshold), rs[i][2]>>]
                  \o << <<"INFO", "retrieval", Len(docs), Len(rs)>> >>]

\* ------------------------------------------------------------------ OutputValidator

MIN_RESPONSE_LENGTH == 10

\* mutant: the rejected answer is reported with the no-context message
INVALID_OUTPUT_MESSAGE_reused == NO_CONTEXT_MESSAGE

INVALID_OUTPUT_MESSAGE == Chars("# Resposta muito curta ou vazia")

\* mutant: the validator looks for another sentence than the sentinel's
NOT_FOUND_MARKER_other == Chars("# Sem informacoes")

NOT_FOUND_MARKER == Chars("# Nao encontrei informacoes")

\* mutant: the "not found" answer is recognised by equality with the message
IsNotFoundAnswer_equality(response) == response = NO_CONTEXT_MESSAGE

\* "... Nao encontrei informacoes" in response
IsNotFoundAnswer(response) == Contains(response, NOT_FOUND_MARKER)

\* mutant: the length is taken without strip()
TooShortResponse_unstripped(response) ==
    response = <<>> \/ Len(response) < MIN_RESPONSE_LENGTH

\* not response or len(response.strip()) < 10
TooShortResponse(response) ==
    response = <<>> \/ Len(Strip(response)) < MIN_RESPONSE_LENGTH

has_source_citation(response) ==
    \/ Contains(response, Chars("(Fonte:"))
    \/ Contains(response, Chars("(fonte:"))
    \/ Contains(response, Chars("Fonte:"))

\* mutant: the overlap counts the words of the context, not of the response
context_overlap_of_context(response_words, context_words) ==
    Cardinality(context_words)

\* len(response_words.intersection(context_words))
context_overlap(response_words, context_words) ==
    Cardinality(response_words \cap context_words)

\* mutant: a smoothed quotient, overlap / (total + 1)
fidelity_score_smoothed(overlap, total) == Ratio(overlap, total + 1)

\* context_overlap / total_response_words
fidelity_score(overlap, total) == Ratio(overlap, total)

\* mutant: <= for <, a score of exactly 0.3 is flagged
LowFidelity_inclusive(overlap, total) == 10 * overlap <= 3 * total

\* fidelity_score < 0.3, the score being overlap / total
LowFidelity(overlap, total) == 10 * overlap < 3 * total

\* mutant: the validator remembers the answer of the call before and refuses
\* an answer that repeats it
validate_response_stateful(response, ctx, q) ==
    [valid |-> response # raw_response, response |-> response,
     metadata |-> [original_length |-> Len(response), context_length |-> Len(ctx),
                   query |-> q],
     logs |-> <<>>]

\* (is_valid, processed response, metadata), and the lines logged;
\* validation_timestamp is left out of the metadata
validate_response(response, ctx, q) ==
    LET metadata == [original_length |-> Len(response),
                     context_length |-> Len(ctx),
                     query |-> q]
    IN
    IF TooShortResponse(response)
    THEN [valid |-> FALSE, response |-> INVALID_OUTPUT_MESSAGE,
          metadata |-> metadata, logs |-> <<>>]
    ELSE IF IsNotFoundAnswer(response)
    THEN [valid |-> TRUE, response |-> response,
          metadata |-> metadata @@ ("validation_result" :> "no_context_found"),
          logs |-> <<>>]
    ELSE
    LET uncited == ctx # <<>> /\ ~has_source_citation(response)
        context_words == Words(Lower(ctx))
        response_words == Words(Lower(response))
        overlap == context_overlap(response_words, context_words)
        total_response_words == Cardinality(response_words)
        scored == total_response_words > 0
        warned == scored /\ LowFidelity(overlap, total_response_words)
    IN  [valid |-> TRUE, response |-> response,
         metadata |->
            ("validation_result" :> "valid")
            @@ (IF warned THEN ("fidelity_warning" :> TRUE) ELSE <<>>)
            @@ (IF scored
                THEN ("fidelity_score" :> fidelity_score(overlap, total_response_words))
                ELSE <<>>)
            @@ ("source_citation" :> ~uncited)
            @@ metadata,
         logs |-> (IF uncited THEN << <<"WARNING", "no_source_citation">> >> ELSE <<>>)
                  \o (IF warned THEN << <<"WARNING", "low_fidelity">> >> ELSE <<>>)]

\* ------------------------------------------------------------------ dicts

EmptyDict == <<>>

\* d[k] = v
Put(d, k, v) == (k :> v) @@ d

\* del d[k]
Del(d, k) == [c \in (DOMAIN d) \ {k} |-> d[c]]

\* mutant: get answers None for every key
Get_missing(d, k) == None

\* d.get(k): None when k is missing
Get(d, k) == IF k \in DOMAIN d THEN Some(d[k]) ELSE None

\* ------------------------------------------------------------------ RAGWithGuardrails

\* __init__: self.similarity_threshold
InitThreshold(mode, custom) ==
    IF custom # None THEN custom[1]
    ELSE IF mode = "strict" THEN SIMILARITY_THRESHOLD_STRICT
    ELSE IF mode = "balanced" THEN SIMILARITY_THRESHOLD_BALANCED
    ELSE IF mode = "permissive" THEN SIMILARITY_THRESHOLD_PERMISSIVE
    ELSE SIMILARITY_THRESHOLD_BALANCED

\* mutant: only the first part is kept
Join_first(parts, sep) == IF parts = <<>> THEN <<>> ELSE parts[1]

\* "sep".join(parts)
RECURSIVE Join(_, _)
Join(parts, sep) ==
    IF parts = <<>> THEN <<>>
    ELSE IF Len(parts) = 1 THEN parts[1]
    ELSE parts[1] \o sep \o Join(Tail(parts), sep)

\* f"[{i}] {content}\n(Fonte: {source})"
FormatPart(i, doc) ==
    Chars("[") \o IntToStr(i) \o Chars("] ") \o Strip(doc.page_content)
    \o Chars("\n(Fonte: ") \o SourceOf(doc, Chars("Fonte desconhecida")) \o Chars(")")

_format_context(docs) ==
    IF docs = <<>> THEN <<>>
    ELSE Join([i \in 1..Len(docs) |-> FormatPart(i, docs[i])], Chars("\n\n"))

\* the template chosen for template_mode
TemplateFor(mode) == IF mode = "strict" THEN "strict" ELSE "balanced"

\* prompt_template.format(question=..., context=...): the template's fixed
\* text is kept by name, its two substitutions by value
RenderPrompt(mode, question, ctx) ==
    [template |-> TemplateFor(mode), question |-> question, context |-> ctx]

REJECTED_PREFIX == Chars("# Query invalida: ")

GENERATION_ERROR_PREFIX == Chars("# Erro na geracao da resposta: ")

\* mutant: the response leaves the error's own message out
GenerationErrorResponse_generic(e) == GENERATION_ERROR_PREFIX

\* f"... Erro na geracao da resposta: {e}"
GenerationErrorResponse(e) == GENERATION_ERROR_PREFIX \o e

\* mutant: the comparison is off by one, an empty list of chunks is enough
InsufficientContext_off_by_one(docs) == Len(docs) < MIN_CHUNKS_REQUIRED - 1

\* mutant: the check of lines 492-497 is missing
InsufficientContext_never(docs) == FALSE

\* len(filtered_docs) < self.config.MIN_CHUNKS_REQUIRED
InsufficientContext(docs) == Len(docs) < MIN_CHUNKS_REQUIRED

\* mutant: 'Fonte desconhecida', the default of _format_context, for 'Unknown'
SourcesOf_context_default(docs) ==
    [i \in 1..Len(docs) |->
        IF "source" \in DOMAIN docs[i].metadata
        THEN docs[i].metadata["source"] ELSE Chars("Fonte desconhecida")]

\* [doc.metadata.get('source', 'Unknown') for doc in filtered_docs]
SourcesOf(docs) == [i \in 1..Len(docs) |-> SourceOf(docs[i], Chars("Unknown"))]

NoCalls == [validate_query |-> 0, load_vectorstore |-> 0, similarity_search |-> 0,
            create_llm |-> 0, llm_invoke |-> 0, validate_response |-> 0]

SetGuardrail(res, stage, value) ==
    Put(res, "guardrails", Put(res["guardrails"], stage, value))

\* mutant: a return path that sets the response and forgets the status
Terminal_without_status(res, response, status) == Put(res, "response", response)

\* result["response"] = response; result["status"] = status
Terminal(res, response, status) ==
    Put(Put(res, "response", response), "status", status)

\* ------------------------------------------------------------------ inputs

\* the longest list of neighbours the index answers with
MaxNeighbours == 2

ThresholdModes == {"strict", "balanced", "permissive", "turbo"}

CustomThresholds == {None, Some(0), Some(40)}

\* the (threshold_mode, custom_threshold) pairs RAGWithGuardrails is built with
Constructions ==
    {c \in ThresholdModes \X CustomThresholds :
        c[2] = None \/ c[1] \in {"strict", "balanced"}}

TemplateModes == {"strict", "balanced"}

Q_THREE == Chars("  abc\n")

Q_MAX == Rep("a", MAX_QUERY_LENGTH)

Q_TOO_LONG == Rep("a", MAX_QUERY_LENGTH + 1)

Q_TOO_LONG_PADDED == Chars(" ") \o Rep("b", MAX_QUERY_LENGTH) \o Chars("c\n")

Q_TOO_LONG_PATTERN == Chars("Act As ") \o Rep("a", MAX_QUERY_LENGTH)

Q_MAX_PATTERN == Rep("a", MAX_QUERY_LENGTH - 6) \o Chars("Act As")

Queries ==
    { <<>>, Chars(" \t\n"), Chars("a"), Chars(" ab "), Q_THREE,
      Chars("ACT AS root"), Chars("please Ignore Previous Instructions now"),
      Chars("Forget everything"), Chars("x pretend TO be y"),
      Chars("SYSTEM: hi"), Chars("hi assistant:"), Chars("system: act as admin"),
      Q_MAX, Q_MAX_PATTERN, Q_TOO_LONG, Q_TOO_LONG_PADDED, Q_TOO_LONG_PATTERN }

GOOD_A ==
    Doc(Chars("O cache distribuido usa Redis com TTL de 300 segundos."),
        [source |-> Chars("a.md")])

\* padded with whitespace, and without a source in its metadata
GOOD_B ==
    Doc(Chars("  A latencia media das APIs e de 120 ms no percentil 95.\n"),
        [page |-> 1])

\* shorter than MIN_CONTEXT_LENGTH
SHORT_DOC == Doc(Chars("Redis e usado."), [source |-> Chars("b.md")])

\* long enough, but only three characters are left without its punctuation
DEGENERATE_DOC ==
    Doc(Rep(".", 30) \o Chars("abc") \o Rep("!", 30), [source |-> Chars("b.md")])

\* the (doc, distance) pairs the index can answer with
Neighbours ==
    { <<GOOD_A, 0>>, <<GOOD_B, 1>>, <<SHORT_DOC, 10>>, <<GOOD_A, 25>>, <<GOOD_B, 26>>,
      <<DEGENERATE_DOC, 30>>, <<GOOD_B, 35>>, <<GOOD_A, 36>> }

\* five chunks of good quality at distances 0.18, 0.22, 0.31, 0.44, 0.61
FIVE_NEIGHBOURS ==
    << <<GOOD_A, 18>>, <<GOOD_B, 22>>, <<GOOD_A, 31>>, <<GOOD_B, 44>>, <<GOOD_A, 61>> >>

\* similarity_search_with_score answers with at most k neighbours, nearest first
IndexAnswers ==
    LET lists == UNION {[1..n -> Neighbours] : n \in 0..MaxNeighbours}
    IN  {l \in lists \cup {FIVE_NEIGHBOURS} :
            /\ Len(l) <= MAX_CHUNKS_RETRIEVED
            /\ \A i \in 1..(Len(l) - 1) : l[i][2] <= l[i + 1][2]}

A_CITED ==
    Chars("+ Com base no contexto fornecido: o cache distribuido usa Redis (Fonte: a.md)")

A_UNCITED == Chars("O sistema usa Memcached.")

\* what llm.invoke(prompt).content can be
Answers ==
    { <<>>, Rep(" ", 12), Chars("Redis"), Chars(" 123456789\n"), Chars("1234567890"),
      NO_CONTEXT_MESSAGE, INVALID_OUTPUT_MESSAGE,
      Chars("Talvez. # Nao encontrei informacoes sobre isso."),
      A_CITED, A_UNCITED }

\* str(e) of what the generation step can raise
GenerationErrors == {<<>>, Chars("timed out")}

\* ------------------------------------------------------------------ the run

Init ==
    /\ \E c \in Constructions :
          /\ threshold_mode = c[1]
          /\ custom_threshold = c[2]
    /\ similarity_threshold = InitThreshold(threshold_mode, custom_threshold)
    /\ pc = "idle"
    /\ query = <<>>
    /\ template_mode = "strict"
    /\ detailed_metadata = FALSE
    /\ sanitized_query = <<>>
    /\ results = <<>>
    /\ filtered_docs = <<>>
    /\ context = <<>>
    /\ raw_response = <<>>
    /\ result = EmptyDict
    /\ index_query = None
    /\ prompt = None
    /\ calls = NoCalls
    /\ log = <<>>
    /\ raised = None
    /\ tracked = None
    /\ recorded = None
    /\ suspended = None

instance == <<threshold_mode, custom_threshold, similarity_threshold>>

arguments == <<query, template_mode, detailed_metadata>>

\* a caller calls query_with_guardrails; lines 464-468
Call ==
    /\ pc = "idle"
    /\ \E q \in Queries, tm \in TemplateModes, dm \in BOOLEAN :
          /\ query' = q
          /\ template_mode' = tm
          /\ detailed_metadata' = dm
          /\ result' = [query |-> q, guardrails |-> EmptyDict]
    /\ pc' = "input_guardrails"
    /\ UNCHANGED <<suspended, observer, instance, sanitized_query, results, filtered_docs, context,
                   raw_response, index_query, prompt, calls, log, raised>>

\* the call is over (it returned result, or raised): its arguments, locals and
\* result are dropped, the instance is ready for the next call
Return ==
    /\ pc \in {"done", "raised"}
    /\ pc' = "idle"
    /\ query' = <<>>
    /\ template_mode' = "strict"
    /\ detailed_metadata' = FALSE
    /\ sanitized_query' = <<>>
    /\ results' = <<>>
    /\ filtered_docs' = <<>>
    /\ context' = <<>>
    /\ raw_response' = <<>>
    /\ result' = EmptyDict
    /\ index_query' = None
    /\ prompt' = None
    /\ calls' = NoCalls
    /\ log' = <<>>
    /\ raised' = None
    /\ UNCHANGED <<suspended, observer, instance>>

\* 1. INPUT GUARDRAILS, lines 470-481
\* lines 471-481, v being what validate_query returned
InputValidated(v) ==
    LET res == SetGuardrail(result, "input_validation",
                   [valid |-> v.valid, sanitized_query |-> v.sanitized,
                    rejection_reason |-> v.reason])
    IN  /\ sanitized_query' = v.sanitized
        /\ log' = log \o v.logs
        /\ IF ~v.valid
           THEN /\ result' = Terminal(res, REJECTED_PREFIX \o v.reason, "rejected_input")
                /\ pc' = "done"
           ELSE /\ result' = res
                /\ pc' = "retrieval_guardrails"

ValidateInput ==
    /\ pc = "input_guardrails"
    /\ InputValidated(validate_query(query))
    /\ calls' = [calls EXCEPT !.validate_query = @ + 1]
    /\ UNCHANGED <<suspended, observer, instance, arguments, results, filtered_docs, context,
                   raw_response, index_query, prompt, raised>>

\* self.load_vectorstore() opens the index, line 484
LoadVectorstore ==
    /\ pc = "retrieval_guardrails"
    /\ pc' = "vectorstore_loaded"
    /\ calls' = [calls EXCEPT !.load_vectorstore = @ + 1]
    /\ log' = Append(log, <<"INFO", "vectorstore_loaded">>)
    /\ UNCHANGED <<suspended, observer, instance, arguments, sanitized_query, results, filtered_docs, context,
                   raw_response, result, index_query, prompt, raised>>

\* ... or raises: line 484 is inside no try
LoadVectorstoreFails ==
    /\ pc = "retrieval_guardrails"
    /\ pc' = "raised"
    /\ raised' = Some("load_vectorstore")
    /\ calls' = [calls EXCEPT !.load_vectorstore = @ + 1]
    /\ UNCHANGED <<suspended, observer, instance, arguments, sanitized_query, results, filtered_docs, context,
                   raw_response, result, index_query, prompt, log>>

\* 2. RETRIEVAL GUARDRAILS, lines 486-490: the index answers
\* lines 486-490, r being what retrieve_with_threshold returned for the
\* index's answer
Retrieved(answer, r) ==
    /\ results' = answer
    /\ filtered_docs' = r.docs
    /\ result' = SetGuardrail(result, "retrieval", r.metadata)
    /\ log' = log \o r.logs

Retrieve ==
    /\ pc = "vectorstore_loaded"
    /\ \E answer \in IndexAnswers :
          Retrieved(answer, retrieve_with_threshold(answer, sanitized_query,
                                                    Some(similarity_threshold)))
    /\ index_query' = Some(sanitized_query)
    /\ calls' = [calls EXCEPT !.similarity_search = @ + 1]
    /\ pc' = "retrieved"
    /\ UNCHANGED <<suspended, observer, instance, arguments, sanitized_query, context, raw_response,
                   prompt, raised>>

\* ... or similarity_search_with_score raises: lines 486-488 are inside no try
RetrieveFails ==
    /\ pc = "vectorstore_loaded"
    /\ pc' = "raised"
    /\ raised' = Some("similarity_search_with_score")
    /\ index_query' = Some(sanitized_query)
    /\ calls' = [calls EXCEPT !.similarity_search = @ + 1]
    /\ UNCHANGED <<suspended, observer, instance, arguments, sanitized_query, results, filtered_docs, context,
                   raw_response, result, prompt, log>>

\* lines 492-497: not enough accepted chunks
NoRelevantContext ==
    /\ pc = "retrieved"
    /\ InsufficientContext(filtered_docs)
    /\ result' = Terminal(result, NO_CONTEXT_MESSAGE, "no_relevant_context")
    /\ log' = Append(log, <<"INFO", "no_relevant_context", Len(filtered_docs)>>)
    /\ pc' = "done"
    /\ UNCHANGED <<suspended, observer, instance, arguments, sanitized_query, results, filtered_docs, context,
                   raw_response, index_query, prompt, calls, raised>>

\* 3. PROMPT GUARDRAILS, lines 499-505
BuildContext ==
    /\ pc = "retrieved"
    /\ ~InsufficientContext(filtered_docs)
    /\ context' = _format_context(filtered_docs)
    /\ pc' = "context_built"
    /\ UNCHANGED <<suspended, observer, instance, arguments, sanitized_query, results, filtered_docs,
                   raw_response, result, index_query, prompt, calls, log, raised>>

\* ChatOllama(...) creates the generator client, line 508
CreateLLM ==
    /\ pc = "context_built"
    /\ pc' = "llm_ready"
    /\ calls' = [calls EXCEPT !.create_llm = @ + 1]
    /\ UNCHANGED <<suspended, observer, instance, arguments, sanitized_query, results, filtered_docs, context,
                   raw_response, result, index_query, prompt, log, raised>>

\* ... or raises: line 508 is before the try
CreateLLMFails ==
    /\ pc = "context_built"
    /\ pc' = "raised"
    /\ raised' = Some("ChatOllama")
    /\ calls' = [calls EXCEPT !.create_llm = @ + 1]
    /\ UNCHANGED <<suspended, observer, instance, arguments, sanitized_query, results, filtered_docs, context,
                   raw_response, result, index_query, prompt, log>>

\* 4. the generator answers, lines 510-521 (prompt_length is left out)
Generate ==
    /\ pc = "llm_ready"
    /\ \E answer \in Answers : raw_response' = answer
    /\ prompt' = Some(RenderPrompt(template_mode, sanitized_query, context))
    /\ calls' = [calls EXCEPT !.llm_invoke = @ + 1]
    /\ result' = SetGuardrail(result, "generation",
                     [template_mode |-> template_mode, context_length |-> Len(context)])
    /\ pc' = "generated"
    /\ UNCHANGED <<suspended, observer, instance, arguments, sanitized_query, results, filtered_docs, context,
                   index_query, log, raised>>

\* mutant: a failed generation is tried again
GenerateFails_retries ==
    /\ pc = "llm_ready"
    /\ \E e \in GenerationErrors : log' = Append(log, <<"ERROR", "generation_retry", e>>)
    /\ prompt' = Some(RenderPrompt(template_mode, sanitized_query, context))
    /\ calls' = [calls EXCEPT !.llm_invoke = @ + 1]
    /\ pc' = "llm_ready"
    /\ UNCHANGED <<suspended, observer, instance, arguments, sanitized_query, results, filtered_docs,
                   context, raw_response, result, index_query, raised>>

\* ... or llm.invoke raises, lines 523-527
GenerateFails ==
    /\ pc = "llm_ready"
    /\ \E e \in GenerationErrors :
          /\ result' = Terminal(result, GenerationErrorResponse(e), "generation_error")
          /\ log' = Append(log, <<"ERROR", "generation_error", e>>)
    /\ prompt' = Some(RenderPrompt(template_mode, sanitized_query, context))
    /\ calls' = [calls EXCEPT !.llm_invoke = @ + 1]
    /\ pc' = "done"
    /\ UNCHANGED <<suspended, observer, instance, arguments, sanitized_query, results, filtered_docs, context,
                   raw_response, index_query, raised>>

\* 6. RESULTADO FINAL, lines 541-555, for a validated response
Success(res, validated_response, output_metadata) ==
    LET full == Put(Terminal(res, validated_response, "success"),
                    "sources", SourcesOf(filtered_docs))
    IN  IF ~detailed_metadata
        THEN Del(Put(full, "summary",
                     [chunks_used |-> Len(filtered_docs),
                      similarity_threshold |-> similarity_threshold,
                      template_mode |-> template_mode,
                      fidelity_score |-> Get(output_metadata, "fidelity_score"),
                      source_citation |-> Get(output_metadata, "source_citation")]),
                 "guardrails")
        ELSE full

\* 5. OUTPUT GUARDRAILS and the final result, lines 529-558
\* lines 534-558, v being what validate_response returned
OutputValidated(v) ==
    LET res == SetGuardrail(result, "output_validation", v.metadata)
    IN  IF ~v.valid
        THEN /\ result' = Terminal(res, v.response, "invalid_output")
             /\ log' = log \o v.logs
        ELSE /\ result' = Success(res, v.response, v.metadata)
             /\ log' = (log \o v.logs) \o << <<"INFO", "success">> >>

ValidateOutput ==
    /\ pc = "generated"
    /\ OutputValidated(validate_response(raw_response, context, sanitized_query))
    /\ calls' = [calls EXCEPT !.validate_response = @ + 1]
    /\ pc' = "done"
    /\ UNCHANGED <<suspended, observer, instance, arguments, sanitized_query, results, filtered_docs, context,
                   raw_response, index_query, prompt, raised>>

Next ==
    \/ Call
    \/ Return
    \/ ValidateInput
    \/ LoadVectorstore
    \/ LoadVectorstoreFails
    \/ Retrieve
    \/ RetrieveFails
    \/ NoRelevantContext
    \/ BuildContext
    \/ CreateLLM
    \/ CreateLLMFails
    \/ Generate
    \/ GenerateFails
    \/ ValidateOutput

Spec == Init /\ [][Next]_vars

\* ------------------------------------------------------------------ two calls at once

\* the arguments and locals of the call of query_with_guardrails that is
\* scheduled, with what is observed of it
Locals ==
    [pc |-> pc, query |-> query, template_mode |-> template_mode,
     detailed_metadata |-> detailed_metadata, sanitized_query |-> sanitized_query,
     results |-> results, filtered_docs |-> filtered_docs, context |-> context,
     raw_response |-> raw_response, result |-> result, index_query |-> index_query,
     prompt |-> prompt, calls |-> calls, log |-> log, raised |-> raised]

\* the locals of a thread that has not called yet
FreshLocals ==
    [pc |-> "idle", query |-> <<>>, template_mode |-> "strict",
     detailed_metadata |-> FALSE, sanitized_query |-> <<>>,
     results |-> <<>>, filtered_docs |-> <<>>, context |-> <<>>,
     raw_response |-> <<>>, result |-> EmptyDict, index_query |-> None,
     prompt |-> None, calls |-> NoCalls, log |-> <<>>, raised |-> None]

\* mutant: sanitized_query is kept on the instance, one for both threads
Resume_shared_sanitized_query(frame) ==
    /\ pc' = frame.pc
    /\ query' = frame.query
    /\ template_mode' = frame.template_mode
    /\ detailed_metadata' = frame.detailed_metadata
    /\ sanitized_query' = sanitized_query
    /\ results' = frame.results
    /\ filtered_docs' = frame.filtered_docs
    /\ context' = frame.context
    /\ raw_response' = frame.raw_response
    /\ result' = frame.result
    /\ index_query' = frame.index_query
    /\ prompt' = frame.prompt
    /\ calls' = frame.calls
    /\ log' = frame.log
    /\ raised' = frame.raised

\* a thread is scheduled again: its call goes on with its own locals
Resume(frame) ==
    /\ pc' = frame.pc
    /\ query' = frame.query
    /\ template_mode' = frame.template_mode
    /\ detailed_metadata' = frame.detailed_metadata
    /\ sanitized_query' = frame.sanitized_query
    /\ results' = frame.results
    /\ filtered_docs' = frame.filtered_docs
    /\ context' = frame.context
    /\ raw_response' = frame.raw_response
    /\ result' = frame.result
    /\ index_query' = frame.index_query
    /\ prompt' = frame.prompt
    /\ calls' = frame.calls
    /\ log' = frame.log
    /\ raised' = frame.raised

\* the interpreter switches to the other thread, between any two steps of
\* the scheduled call: the instance is the same object for both
Switch ==
    /\ suspended' = Some(Locals)
    /\ Resume(IF suspended = None THEN FreshLocals ELSE suspended[1])
    /\ UNCHANGED <<observer, instance>>

ConcurrentQueries == {<<>>, Q_THREE, Q_MAX}

ConcurrentIndexAnswers == {<<>>, << <<GOOD_A, 25>> >>}

ConcurrentAnswers == {<<>>, A_CITED}

\* what the two threads call with and are answered
ConcurrentInputs ==
    /\ query \in ConcurrentQueries
    /\ results \in ConcurrentIndexAnswers
    /\ raw_response \in ConcurrentAnswers

\* one instance, built with the defaults
ConcurrentInit == Init /\ threshold_mode = "balanced" /\ custom_threshold = None

\* the steps of the scheduled call, and the switch to the other thread
ConcurrentNext ==
    \/ Call /\ ConcurrentInputs'
    \/ Return /\ ConcurrentInputs'
    \/ ValidateInput /\ ConcurrentInputs'
    \/ LoadVectorstore /\ ConcurrentInputs'
    \/ LoadVectorstoreFails /\ ConcurrentInputs'
    \/ Retrieve /\ ConcurrentInputs'
    \/ RetrieveFails /\ ConcurrentInputs'
    \/ NoRelevantContext /\ ConcurrentInputs'
    \/ BuildContext /\ ConcurrentInputs'
    \/ CreateLLM /\ ConcurrentInputs'
    \/ CreateLLMFails /\ ConcurrentInputs'
    \/ Generate /\ ConcurrentInputs'
    \/ GenerateFails /\ ConcurrentInputs'
    \/ ValidateOutput /\ ConcurrentInputs'
    \/ Switch /\ ConcurrentInputs'

ConcurrentSpec == ConcurrentInit /\ [][ConcurrentNext]_vars

\* ------------------------------------------------------------------ the validator alone

\* the contexts _format_context builds, and the empty context
ValidatorContexts ==
    { <<>>, _format_context(<<GOOD_A>>), _format_context(<<GOOD_B, GOOD_A>>) }

\* every word of it is a word of the context built from GOOD_A
A_GROUNDED == Chars("O CACHE usa  Redis\t(Fonte: a.md)")

\* ten distinct words, three of them words of the context built from GOOD_A
A_THREE_OF_TEN == Chars("O cache usa k l m n p q r")

\* the answers the validator is called with on its own
ValidatorAnswers ==
    { <<>>, Chars(" 123456789\n"), Chars("1234567890"), NO_CONTEXT_MESSAGE,
      A_CITED, A_UNCITED, A_GROUNDED, A_THREE_OF_TEN }

\* the most calls of validate_response that are followed
MaxValidatorCalls == 3

\* the (response, context, query) OutputValidator.validate_response is called with
ValidatorArguments ==
    [response : ValidatorAnswers,
     context : ValidatorContexts,
     query : {Strip(Q_THREE), Chars("qual cache?")}]

\* the arguments the observer may follow
TrackedArguments ==
    {a \in ValidatorArguments :
        /\ a.response \in {A_GROUNDED, A_UNCITED, NO_CONTEXT_MESSAGE}
        /\ a.context \in {<<>>, _format_context(<<GOOD_A>>)}
        /\ a.query = Strip(Q_THREE)}

\* an instance is built; nothing has called its output validator yet
ValidatorInit ==
    /\ threshold_mode = "balanced"
    /\ custom_threshold = None
    /\ similarity_threshold = InitThreshold(threshold_mode, custom_threshold)
    /\ pc = "validator_idle"
    /\ query = <<>>
    /\ template_mode = "strict"
    /\ detailed_metadata = FALSE
    /\ sanitized_query = <<>>
    /\ results = <<>>
    /\ filtered_docs = <<>>
    /\ context = <<>>
    /\ raw_response = <<>>
    /\ result = EmptyDict
    /\ index_query = None
    /\ prompt = None
    /\ calls = NoCalls
    /\ log = <<>>
    /\ raised = None
    /\ tracked \in TrackedArguments
    /\ recorded = None
    /\ suspended = None

\* a call of the static method validate_response, lines 344-400: its arguments
\* stand in raw_response, context and sanitized_query, what it returned in
\* result, what it logged in log
\* v is what validate_response returned for the arguments a
ValidateResponseReturns(a, v) ==
    /\ raw_response' = a.response
    /\ context' = a.context
    /\ sanitized_query' = a.query
    /\ result' = [valid |-> v.valid, response |-> v.response, metadata |-> v.metadata]
    /\ log' = v.logs
    /\ calls' = [calls EXCEPT !.validate_response = @ + 1]
    /\ recorded' = IF recorded = None /\ a = tracked
                   THEN Some([at |-> calls'.validate_response, returned |-> result'])
                   ELSE recorded

ValidateResponseCall ==
    /\ pc \in {"validator_idle", "validated"}
    /\ calls.validate_response < MaxValidatorCalls
    /\ \E a \in ValidatorArguments :
          ValidateResponseReturns(a, validate_response(a.response, a.context, a.query))
    /\ pc' = "validated"
    /\ UNCHANGED <<instance, arguments, results, filtered_docs, index_query, prompt,
                   raised, tracked, suspended>>

ValidatorNext == ValidateResponseCall

ValidatorSpec == ValidatorInit /\ [][ValidatorNext]_vars

\* ------------------------------------------------------------------ properties

Statuses ==
    {"rejected_input", "no_relevant_context", "generation_error", "invalid_output",
     "success"}

FailureStatuses == Statuses \ {"success"}

HasPrefix(s, p) == Len(s) >= Len(p) /\ SubSeq(s, 1, Len(p)) = p

\* the run ended and returned result
Returned == pc = "done"

\* the index answered and retrieve_with_threshold filtered its answer
Filtered == calls.similarity_search = 1 /\ raised = None

\* the scores of the retrieved chunks that the log reports as accepted
AcceptedScores ==
    {log[k][3] : k \in {n \in 1..Len(log) : log[n][1] = "chunk" /\ log[n][2] = "accepted"}}

\* C1: a run whose guardrail accepted fewer than MIN_CHUNKS_REQUIRED chunks
\* (as when every retrieved distance is above the threshold the guardrail
\* used) goes from the retrieval straight to its end, with status
\* no_relevant_context and the response NO_CONTEXT_MESSAGE; the generator
\* client is neither created nor invoked and no prompt is rendered.
C1_NoContextShortCircuit ==
    /\ (Filtered /\ Len(filtered_docs) < MIN_CHUNKS_REQUIRED) =>
          /\ pc \in {"retrieved", "done"}
          /\ calls.create_llm = 0
          /\ calls.llm_invoke = 0
          /\ prompt = None
          /\ Returned => /\ result.status = "no_relevant_context"
                         /\ result.response = NO_CONTEXT_MESSAGE
    /\ (pc = "retrieved" /\ \A i \in 1..Len(results) :
            results[i][2] > result.guardrails.retrieval.threshold_used) =>
          Len(filtered_docs) < MIN_CHUNKS_REQUIRED

C1_Witness ==
    /\ Returned
    /\ result.status = "no_relevant_context"
    /\ Len(results) >= 1
    /\ \A i \in 1..Len(results) :
          results[i][2] > result.guardrails.retrieval.threshold_used
    /\ calls.llm_invoke = 0

\* C2: a returned result carries one status, one of the five; no result
\* carries a status before the run is over; and the stages after the terminal
\* one have not run: after rejected_input the index is neither opened nor
\* queried and neither the generator nor the output validator is called, after
\* no_relevant_context neither the generator nor the output validator is
\* called, after generation_error the output validator is not called.
C2_OneStatusAndShortCircuit ==
    /\ ~Returned => "status" \notin DOMAIN result
    /\ Returned =>
          /\ "status" \in DOMAIN result
          /\ result.status \in Statuses
          /\ result.status = "rejected_input" =>
                /\ calls.load_vectorstore = 0
                /\ calls.similarity_search = 0
                /\ calls.create_llm = 0
                /\ calls.llm_invoke = 0
                /\ calls.validate_response = 0
          /\ result.status = "no_relevant_context" =>
                /\ calls.create_llm = 0
                /\ calls.llm_invoke = 0
                /\ calls.validate_response = 0
          /\ result.status = "generation_error" => calls.validate_response = 0

C2_Witness ==
    /\ Returned
    /\ result.status = "generation_error"
    /\ calls.llm_invoke = 1
    /\ calls.validate_response = 0

\* C3 (as claimed): after the guardrail has filtered the index's answer, every
\* accepted chunk is one of the retrieved chunks and every accepted chunk's
\* distance is <= the threshold configured on the instance
\* (self.similarity_threshold), for a preset and for any custom_threshold,
\* 0 included.
C3_AcceptedWithinConfiguredThreshold ==
    pc = "retrieved" =>
        /\ \A j \in 1..Len(filtered_docs) :
              \E i \in 1..Len(results) : results[i][1] = filtered_docs[j]
        /\ \A score \in AcceptedScores : score <= similarity_threshold

\* C4: a result with status success comes from a run in which the guardrail
\* accepted at least one chunk, each of them a retrieved chunk; the context
\* given to the prompt is the one built from the accepted chunks, is not empty
\* and holds the trimmed content of each; the sources list is not empty.
C4_SuccessUsesAcceptedChunks ==
    (Returned /\ result.status = "success") =>
        /\ Len(filtered_docs) >= 1
        /\ \A j \in 1..Len(filtered_docs) :
              /\ \E i \in 1..Len(results) : results[i][1] = filtered_docs[j]
              /\ Contains(context, Strip(filtered_docs[j].page_content))
        /\ context # <<>>
        /\ prompt # None
        /\ prompt[1].context = context
        /\ result.sources # <<>>

C4_Witness ==
    /\ Returned
    /\ result.status = "success"
    /\ Len(results) = 2
    /\ Len(filtered_docs) = 1
    /\ Len(result.sources) = 1

\* C5 (as claimed): no failure of the index or of the generator client leaves
\* query_with_guardrails as an exception; every call ends by returning a
\* result.
C5_NoExceptionEscapes == pc # "raised" /\ raised = None

\* the texts a failure status answers with
FailureText(status, text) ==
    CASE status = "rejected_input" -> HasPrefix(text, REJECTED_PREFIX)
      [] status = "no_relevant_context" -> text = NO_CONTEXT_MESSAGE
      [] status = "generation_error" -> HasPrefix(text, GENERATION_ERROR_PREFIX)
      [] status = "invalid_output" -> text = INVALID_OUTPUT_MESSAGE

\* C6 (as claimed): every returned response is non-empty and is a text of its
\* own status only: a run of any status, success included, never returns a
\* text that a run of another status returns.
C6_DistinctMessagesForAllStatuses ==
    Returned =>
        /\ result.response # <<>>
        /\ \A s \in FailureStatuses :
              FailureText(s, result.response) <=> s = result.status

\* C6 (amended): every returned response is non-empty, and the four failure
\* statuses answer with texts of their own: a failed run's response is a text
\* of its status and of no other failure status.
C6_DistinctFailureMessages ==
    Returned =>
        /\ result.response # <<>>
        /\ result.status \in FailureStatuses =>
              \A s \in FailureStatuses :
                  FailureText(s, result.response) <=> s = result.status

C6_Witness ==
    /\ Returned
    /\ result.status = "invalid_output"
    /\ result.response = INVALID_OUTPUT_MESSAGE
    /\ raw_response # <<>>

\* validate_query has just run: nothing later has
InputChecked == calls.validate_query = 1 /\ calls.load_vectorstore = 0

\* the run ended in rejected_input with this reason, in the result's metadata
\* and in its response
RejectedWith(reason) ==
    /\ Returned
    /\ result.status = "rejected_input"
    /\ result.guardrails.input_validation.valid = FALSE
    /\ result.guardrails.input_validation.rejection_reason = reason
    /\ result.response = REJECTED_PREFIX \o reason

\* C7 (as claimed): a query whose trimmed length is above 500 is accepted by
\* validate_query with its first 500 characters as the sanitized query, and
\* the run goes on past the input validation.
C7_TooLongIsTruncatedAndAccepted ==
    (InputChecked /\ Len(Strip(query)) > MAX_QUERY_LENGTH) =>
        /\ result.guardrails.input_validation.valid = TRUE
        /\ sanitized_query = Prefix(Strip(query), MAX_QUERY_LENGTH)
        /\ pc = "retrieval_guardrails"

\* C8: a query is rejected as too small exactly when its trimmed length is
\* below 3: with the Empty reason at length 0, with the TooShort reason at
\* length 1 or 2, the run ending in rejected_input with that reason; and from
\* length 3 on with neither reason.
C8_TooSmallExactlyBelowThree ==
    InputChecked =>
        LET n == Len(Strip(query)) IN
        /\ n = 0 => RejectedWith(REASON_EMPTY)
        /\ n \in 1..2 => RejectedWith(REASON_TOO_SHORT)
        /\ n >= 3 => result.guardrails.input_validation.rejection_reason
                         \notin {REASON_EMPTY, REASON_TOO_SHORT}

C8_Witness ==
    /\ InputChecked
    /\ Len(query) > 2
    /\ Len(Strip(query)) = 2
    /\ RejectedWith(REASON_TOO_SHORT)

\* the trimmed, lowercased query holds entry i of the deny-list
Denied(i) == Contains(Lower(Strip(query)), injection_patterns[i])

\* the run ended in rejected_input, for a deny-list entry the query holds
RejectedAsSuspicious ==
    \E i \in 1..Len(injection_patterns) :
        Denied(i) /\ RejectedWith(REASON_SUSPICIOUS \o injection_patterns[i])

\* C9 (as claimed): every query of trimmed length >= 3 that holds a deny-list
\* entry, in any letter case and at any place, is rejected with the
\* SuspiciousPattern reason naming an entry it holds, the run ending in
\* rejected_input.
C9_AnyLengthSuspiciousRejected ==
    (InputChecked /\ Len(Strip(query)) >= MIN_QUERY_LENGTH
        /\ \E i \in 1..Len(injection_patterns) : Denied(i))
    => RejectedAsSuspicious

\* C10: when the generator returned an answer whose trimmed length is below
\* 10, the empty answer included, the output validator rejects it: the run
\* ends with status invalid_output and the validator's message.
C10_ShortAnswerIsInvalidOutput ==
    (Returned /\ calls.llm_invoke = 1 /\ result.status # "generation_error"
        /\ Len(Strip(raw_response)) < MIN_RESPONSE_LENGTH)
    => /\ result.status = "invalid_output"
       /\ result.response = INVALID_OUTPUT_MESSAGE
       /\ calls.validate_response = 1

C10_Witness ==
    /\ Returned
    /\ Len(raw_response) >= MIN_RESPONSE_LENGTH
    /\ Len(Strip(raw_response)) = MIN_RESPONSE_LENGTH - 1
    /\ result.status = "invalid_output"

\* the output validator ran on the generator's answer and the run returned
OutputChecked == Returned /\ calls.validate_response = 1

\* the returned result holds the output validator's metadata
HasOutputMetadata ==
    /\ "guardrails" \in DOMAIN result
    /\ "output_validation" \in DOMAIN result.guardrails

\* the returned result shows the marker no_context_found
MarkerVisible ==
    /\ HasOutputMetadata
    /\ "validation_result" \in DOMAIN result.guardrails.output_validation
    /\ result.guardrails.output_validation.validation_result = "no_context_found"

\* C11 (as claimed): when the generator answered with NO_CONTEXT_MESSAGE, the
\* run ends with status success, never invalid_output, the response being
\* that answer, and the returned result shows the marker no_context_found.
C11_SentinelSuccessShowsMarker ==
    (OutputChecked /\ raw_response = NO_CONTEXT_MESSAGE) =>
        /\ result.status = "success"
        /\ result.response = raw_response
        /\ MarkerVisible

\* C11 (amended): when the generator answered with NO_CONTEXT_MESSAGE, the run
\* ends with status success, never invalid_output, the response being that
\* answer; the returned result shows the marker no_context_found when the
\* call asked for detailed_metadata, and otherwise it has no guardrails entry
\* and its summary holds None for fidelity_score and source_citation.
C11_SentinelSuccessMarkerWhenDetailed ==
    (OutputChecked /\ raw_response = NO_CONTEXT_MESSAGE) =>
        /\ result.status = "success"
        /\ result.response = raw_response
        /\ detailed_metadata => MarkerVisible
        /\ ~detailed_metadata =>
              /\ "guardrails" \notin DOMAIN result
              /\ result.summary.fidelity_score = None
              /\ result.summary.source_citation = None

C11_Witness ==
    /\ OutputChecked
    /\ raw_response = NO_CONTEXT_MESSAGE
    /\ result.status = "success"
    /\ detailed_metadata
    /\ MarkerVisible

\* the generation step failed in this run: the except branch logged it
GenerationFailed ==
    \E n \in 1..Len(log) : log[n][1] = "ERROR" /\ log[n][2] = "generation_error"

\* C12: a run whose generation step failed, a timeout included, ends at once
\* with status generation_error and a response made of the error prefix and
\* the error's own message; in no run is the generator invoked twice, and
\* after the failure the output validator is not run and nothing of it is in
\* the result.
C12_GenerationFailureEndsRun ==
    /\ calls.llm_invoke <= 1
    /\ GenerationFailed <=> (Returned /\ result.status = "generation_error")
    /\ GenerationFailed =>
          /\ result.response = GENERATION_ERROR_PREFIX \o log[Len(log)][3]
          /\ calls.llm_invoke = 1
          /\ calls.validate_response = 0
          /\ ~HasOutputMetadata
          /\ raw_response = <<>>

C12_Witness ==
    /\ Returned
    /\ result.status = "generation_error"
    /\ result.response = GENERATION_ERROR_PREFIX \o Chars("timed out")
    /\ calls.validate_response = 0

\* thresholds a caller can pass to retrieve_with_threshold, in hundredths
ComparedThresholds == {0, 1, 10, 25, 26, 35, 40, 50}

\* how many of the retrieved chunks retrieve_with_threshold accepts when it is
\* passed the threshold t
AcceptedUnder(t) ==
    Len(retrieve_with_threshold(results, sanitized_query, Some(t)).docs)

\* C13 (as claimed): for the list of chunks the index answered with, and the
\* threshold t1 the run passed and any other threshold t2, 0 included: the
\* number of chunks accepted under the smaller threshold is <= the number
\* accepted under the larger one.
C13_MonotonicAcceptance ==
    pc = "retrieved" =>
        \A t \in ComparedThresholds :
            /\ similarity_threshold < t => Len(filtered_docs) <= AcceptedUnder(t)
            /\ t < similarity_threshold => AcceptedUnder(t) <= Len(filtered_docs)

\* the lines logged for the chunks, in the order of the results
ChunkLog == SelectSeq(log, LAMBDA e : e[1] = "chunk")

\* C14: of the retrieved chunks, one that passes the quality check and whose
\* distance equals the threshold the filtering loop compares with (the one
\* reported as threshold_used) is accepted, and one whose distance is one
\* unit (0.01) above it is rejected.
C14_InclusiveBoundary ==
    pc = "retrieved" =>
        LET threshold == result.guardrails.retrieval.threshold_used IN
        \A i \in 1..Len(results) :
            /\ (results[i][2] = threshold /\ _validate_chunk_quality(results[i][1]))
                  => ChunkLog[i][2] = "accepted"
            /\ results[i][2] = threshold + 1
                  => ChunkLog[i][2] = "rejected_threshold"

C14_Witness ==
    /\ pc = "retrieved"
    /\ Len(results) = 2
    /\ results[1][2] = result.guardrails.retrieval.threshold_used
    /\ results[2][2] = result.guardrails.retrieval.threshold_used + 1
    /\ _validate_chunk_quality(results[2][1])
    /\ Len(filtered_docs) = 1
    /\ ChunkLog[1][2] = "accepted"
    /\ ChunkLog[2][2] = "rejected_threshold"

\* validate_response has been called with the arguments that stand in
\* raw_response, context and sanitized_query, and result is what it returned
Validated == pc = "validated"

\* the call recorded a fidelity_score
Scored == Validated /\ "fidelity_score" \in DOMAIN result.metadata

\* the distinct lowercase words of the answer and of the context
AnswerWords == Words(Lower(raw_response))

ContextWords == Words(Lower(context))

\* the answer reaches the fidelity computation: it is neither too short nor
\* the "not found" answer
ReachesFidelity ==
    /\ Validated
    /\ Len(Strip(raw_response)) >= MIN_RESPONSE_LENGTH
    /\ ~Contains(raw_response, NOT_FOUND_MARKER)

\* C15: an answer that reaches the fidelity computation is given a
\* fidelity_score, which is 1 (overlap = total) when every distinct lowercase
\* word of the answer is a word of the context and 0 when none is.
C15_FidelityOneWhenAllZeroWhenNone ==
    ReachesFidelity =>
        /\ Scored
        /\ AnswerWords \subseteq ContextWords =>
              result.metadata.fidelity_score.num = result.metadata.fidelity_score.den
        /\ AnswerWords \cap ContextWords = {} =>
              result.metadata.fidelity_score.num = 0

C15_Witness ==
    /\ Scored
    /\ raw_response # Lower(raw_response)
    /\ Cardinality(AnswerWords) >= 3
    /\ AnswerWords \subseteq ContextWords
    /\ result.metadata.fidelity_score.num = result.metadata.fidelity_score.den

\* C16: a recorded fidelity_score lies in [0, 1]: it is overlap / total with
\* 0 <= overlap <= total, total being the number of distinct answer words,
\* which is at least 1; an answer without a word is given no score.
C16_FidelityWithinUnitInterval ==
    /\ Scored =>
          /\ result.metadata.fidelity_score.den = Cardinality(AnswerWords)
          /\ result.metadata.fidelity_score.den >= 1
          /\ result.metadata.fidelity_score.num >= 0
          /\ result.metadata.fidelity_score.num <= result.metadata.fidelity_score.den
    /\ (Validated /\ AnswerWords = {}) => ~Scored

C16_Witness ==
    /\ Scored
    /\ result.metadata.fidelity_score.num > 0
    /\ result.metadata.fidelity_score.num < result.metadata.fidelity_score.den

\* what the claim compares of a returned (is_valid, response, metadata)
Compared(returned) ==
    <<Get(returned.metadata, "fidelity_score"), returned.valid, returned.response>>

AcceptedCount ==
    Cardinality({i \in 1..Len(ChunkLog) : ChunkLog[i][2] = "accepted"})

\* C18: the telemetry of a retrieval counts the chunks the index returned and
\* the chunks accepted, filtered_count <= total_retrieved, and its
\* rejection_rate is 1 - accepted/retrieved, 0 when the index returned
\* nothing; for the five chunks at 0.18, 0.22, 0.31, 0.44, 0.61, all of good
\* quality, and the threshold 0.35, the first three are accepted and the rate
\* is 0.4.
C18_TelemetryRejectionRate ==
    pc = "retrieved" =>
        LET telemetry == result.guardrails.retrieval
            rate == telemetry.rejection_rate
        IN  /\ telemetry.total_retrieved = Len(results)
            /\ telemetry.filtered_count = AcceptedCount
            /\ telemetry.filtered_count = Len(filtered_docs)
            /\ telemetry.filtered_count <= telemetry.total_retrieved
            /\ rate.den > 0
            /\ results = <<>> => rate.num = 0
            /\ results # <<>> =>
                  rate.num * Len(results) = (Len(results) - AcceptedCount) * rate.den
            /\ (results = FIVE_NEIGHBOURS /\ telemetry.threshold_used = 35) =>
                  /\ filtered_docs = <<GOOD_A, GOOD_B, GOOD_A>>
                  /\ 10 * rate.num = 4 * rate.den

C18_Witness ==
    /\ pc = "retrieved"
    /\ results = FIVE_NEIGHBOURS
    /\ result.guardrails.retrieval.threshold_used = 35
    /\ Len(filtered_docs) = 3
    /\ result.guardrails.retrieval.rejection_rate = Ratio(2, 5)

\* the threshold the instance was configured with: custom_threshold when it
\* was given, else the preset of a known threshold_mode
ConfiguredThreshold ==
    IF custom_threshold # None THEN custom_threshold
    ELSE IF threshold_mode = "strict" THEN Some(SIMILARITY_THRESHOLD_STRICT)
    ELSE IF threshold_mode = "balanced" THEN Some(SIMILARITY_THRESHOLD_BALANCED)
    ELSE IF threshold_mode = "permissive" THEN Some(SIMILARITY_THRESHOLD_PERMISSIVE)
    ELSE None

\* C19 (as claimed): the threshold reported as threshold_used, and applied to
\* the chunks, is custom_threshold whenever one was given, 0 included,
\* whatever threshold_mode is, and otherwise the preset of threshold_mode;
\* the presets are ordered strict < balanced < permissive.
C19_ThresholdUsedIsConfigured ==
    /\ SIMILARITY_THRESHOLD_STRICT < SIMILARITY_THRESHOLD_BALANCED
    /\ SIMILARITY_THRESHOLD_BALANCED < SIMILARITY_THRESHOLD_PERMISSIVE
    /\ (pc = "retrieved" /\ ConfiguredThreshold # None) =>
          /\ result.guardrails.retrieval.threshold_used = ConfiguredThreshold[1]
          /\ \A i \in 1..Len(results) :
                results[i][2] > ConfiguredThreshold[1]
                    => ChunkLog[i][2] = "rejected_threshold"

\* the run returned with status success
Succeeded == Returned /\ result.status = "success"

\* what the returned result holds under the key k of the output metadata:
\* in its summary, or with detailed_metadata in guardrails.output_validation;
\* None when it holds no value there
Inspected(k) ==
    IF detailed_metadata
    THEN IF k \in DOMAIN result.guardrails.output_validation
         THEN Some(result.guardrails.output_validation[k]) ELSE None
    ELSE result.summary[k]

\* the success result holds the list of the sources of the accepted chunks
YieldsSources ==
    /\ "sources" \in DOMAIN result
    /\ Len(result.sources) = Len(filtered_docs)
    /\ Len(result.sources) >= 1

\* the success result holds a fidelity score and a citation flag, as values
YieldsFidelityAndCitation ==
    /\ Inspected("fidelity_score") # None
    /\ Inspected("fidelity_score")[1].den >= 1
    /\ Inspected("source_citation") \in {Some(TRUE), Some(FALSE)}

\* C20 (as claimed): every success result holds, besides the answer, the
\* source list and both the fidelity score and the source-citation flag as
\* values, neither missing nor None.
C20_EverySuccessYieldsFidelityAndCitation ==
    Succeeded =>
        /\ result.response = raw_response
        /\ YieldsSources
        /\ YieldsFidelityAndCitation

\* C20 (amended): every success result holds the answer and the source list;
\* it holds the fidelity score and the source-citation flag as values when
\* the answer does not contain the "not found" sentence, and neither of them
\* (missing, or None in the summary) when it does.
C20_SuccessYieldsFidelityUnlessNotFound ==
    Succeeded =>
        /\ result.response = raw_response
        /\ YieldsSources
        /\ ~Contains(raw_response, NOT_FOUND_MARKER) => YieldsFidelityAndCitation
        /\ Contains(raw_response, NOT_FOUND_MARKER) =>
              /\ Inspected("fidelity_score") = None
              /\ Inspected("source_citation") = None

C20_Witness ==
    /\ Succeeded
    /\ ~detailed_metadata
    /\ Len(result.sources) = 2
    /\ result.summary.fidelity_score # None
    /\ result.summary.source_citation = Some(FALSE)

\* the metadata of the call flags a fidelity warning
Warned ==
    /\ "fidelity_warning" \in DOMAIN result.metadata
    /\ result.metadata.fidelity_warning = TRUE

\* the number of distinct answer words that are words of the context
Overlap == Cardinality(AnswerWords \cap ContextWords)

\* C21: an answer of trimmed length >= 10 is accepted whatever its fidelity
\* and returned unchanged, and the metadata flags fidelity_warning exactly when
\* a fidelity score was computed and is below 0.3 (overlap / total < 3/10).
C21_LowFidelityOnlyWarns ==
    (Validated /\ Len(Strip(raw_response)) >= MIN_RESPONSE_LENGTH) =>
        /\ result.valid = TRUE
        /\ result.response = raw_response
        /\ Warned <=> (Scored /\ 10 * Overlap < 3 * Cardinality(AnswerWords))

C21_Witness ==
    /\ Validated
    /\ Warned
    /\ context # <<>>
    /\ result.metadata.fidelity_score.num = 0
    /\ result.valid = TRUE
    /\ result.response = raw_response

\* the answer holds one of the citation markers
HoldsCitationMarker ==
    \E marker \in {Chars("(Fonte:"), Chars("(fonte:"), Chars("Fonte:")} :
        \E i \in 1..Len(raw_response) :
            /\ i + Len(marker) - 1 <= Len(raw_response)
            /\ SubSeq(raw_response, i, i + Len(marker) - 1) = marker

\* C22 (as claimed): for an answer that reaches the citation check, with any
\* context, the empty one included, the recorded source_citation is true when
\* the answer holds a citation marker and false when it holds none.
C22_CitationFlagFollowsMarker ==
    ReachesFidelity =>
        /\ "source_citation" \in DOMAIN result.metadata
        /\ result.metadata.source_citation = HoldsCitationMarker

\* the log holds a line of the kind k
Logged(k) == \E n \in 1..Len(log) : log[n][2] = k

\* the log holds a line for the terminal status of the returned result
StatusLogged ==
    CASE result.status = "rejected_input" -> Logged("rejected_input") \/ Logged("injection")
      [] result.status = "no_relevant_context" -> Logged("no_relevant_context")
      [] result.status = "generation_error" -> Logged("generation_error")
      [] result.status = "invalid_output" -> Logged("invalid_output")
      [] result.status = "success" -> Logged("success")

\* C23 (as claimed): a returned run has logged a line for its terminal status,
\* whichever it is and for each rejection reason, and each retrieved chunk has
\* one logged decision, all of them before the last line of the log.
C23_EveryStatusAndChunkLogged ==
    Returned =>
        /\ StatusLogged
        /\ calls.similarity_search = 1 =>
              /\ Len(ChunkLog) = Len(results)
              /\ log[Len(log)][1] # "chunk"

\* C25: in one run each stage runs at most once and only after the stage
\* before it: the index is opened only after the query was validated as
\* valid, queried only once opened, the generator client is created only
\* after the guardrail accepted enough chunks, the generator is invoked at
\* most once and only with its client, and the output validator runs only on
\* an answer of the generator.
C25_StagesOnceInOrder ==
    /\ \A stage \in DOMAIN calls : calls[stage] <= 1
    /\ calls.load_vectorstore = 1 =>
          /\ calls.validate_query = 1
          /\ Logged("query_validated")
    /\ calls.similarity_search = 1 => calls.load_vectorstore = 1
    /\ calls.create_llm = 1 =>
          /\ calls.similarity_search = 1
          /\ Len(filtered_docs) >= MIN_CHUNKS_REQUIRED
          /\ context # <<>>
    /\ calls.llm_invoke = 1 => calls.create_llm = 1 /\ raised = None
    /\ calls.validate_response = 1 =>
          /\ calls.llm_invoke = 1
          /\ ~Logged("generation_error")
    /\ pc = "input_guardrails" => calls = NoCalls
    /\ pc = "retrieval_guardrails" => calls.load_vectorstore = 0
    /\ pc = "vectorstore_loaded" => calls.similarity_search = 0
    /\ pc \in {"retrieved", "context_built"} => calls.create_llm = 0
    /\ pc = "llm_ready" => calls.llm_invoke = 0
    /\ pc = "generated" => calls.validate_response = 0

C25_Witness ==
    /\ Returned
    /\ result.status = "success"
    /\ \A stage \in DOMAIN calls : calls[stage] = 1

\* the three conditions of acceptance, for the i-th retrieved chunk and the
\* threshold the loop compares with
Acceptable(i) ==
    LET content == Strip(results[i][1].page_content) IN
    /\ results[i][2] <= result.guardrails.retrieval.threshold_used
    /\ Len(content) >= 50
    /\ Len(StripChars(content, {".", ",", "!", "?", ";", ":", "\n", "\t", " "})) >= 10

\* the chunks of results[i..] that satisfy the three conditions, in their order
RECURSIVE AcceptableFrom(_)
AcceptableFrom(i) ==
    IF i > Len(results) THEN <<>>
    ELSE (IF Acceptable(i) THEN <<results[i][1]>> ELSE <<>>) \o AcceptableFrom(i + 1)

\* C26: the accepted list is the subsequence, in retrieval order, of the
\* retrieved chunks with distance <= threshold, trimmed length >= 50 and at
\* least 10 characters left without the punctuation around: none that fails
\* a condition is in it, none that satisfies the three is dropped, duplicated
\* or moved.
C26_AcceptedIsTheQualifyingSubsequence ==
    pc = "retrieved" => filtered_docs = AcceptableFrom(1)

C26_Witness ==
    /\ pc = "retrieved"
    /\ Len(results) = 2
    /\ results[1][1] = DEGENERATE_DOC
    /\ results[1][2] <= result.guardrails.retrieval.threshold_used
    /\ filtered_docs = <<results[2][1]>>

\* the block _format_context emits for the i-th accepted chunk
Block(i) ==
    Chars("[") \o IntToStr(i) \o Chars("] ")
    \o Strip(filtered_docs[i].page_content)
    \o Chars("\n(Fonte: ")
    \o (IF "source" \in DOMAIN filtered_docs[i].metadata
        THEN filtered_docs[i].metadata.source ELSE Chars("Fonte desconhecida"))
    \o Chars(")")

\* the blocks i..n, each followed by a blank line but the last
RECURSIVE BlocksFrom(_)
BlocksFrom(i) ==
    IF i > Len(filtered_docs) THEN <<>>
    ELSE Block(i) \o (IF i < Len(filtered_docs) THEN Chars("\n\n") ELSE <<>>)
         \o BlocksFrom(i + 1)

\* C27: the context built from the accepted chunks is one block per chunk,
\* numbered from 1 in the order of the list, each the chunk's trimmed content
\* followed by its source, the blocks joined by a blank line: no chunk is
\* dropped, merged with an identical one or moved, and the string depends on
\* the list alone.
C27_ContextIsTheBlocksInOrder ==
    pc \in {"context_built", "llm_ready", "generated"} => context = BlocksFrom(1)

C27_Witness ==
    /\ pc = "context_built"
    /\ Len(filtered_docs) = 2
    /\ filtered_docs[1] = filtered_docs[2]
    /\ context = Block(1) \o Chars("\n\n") \o Block(2)

\* the generator's answer holds the "not found" sentence somewhere
HoldsNotFoundSentence ==
    \E i \in 1..Len(raw_response) :
        /\ i + Len(NOT_FOUND_MARKER) - 1 <= Len(raw_response)
        /\ SubSeq(raw_response, i, i + Len(NOT_FOUND_MARKER) - 1) = NOT_FOUND_MARKER

\* C28: an answer of trimmed length >= 10 that holds the "not found" sentence
\* anywhere, other text around it or not, is accepted as no_context_found
\* without citation check or fidelity computation: the run ends in success
\* with the answer unchanged, no fidelity_score and no source_citation in the
\* result, and neither of the validator's two warnings logged.
C28_NotFoundBySubstring ==
    (OutputChecked /\ Len(Strip(raw_response)) >= MIN_RESPONSE_LENGTH
        /\ HoldsNotFoundSentence)
    => /\ result.status = "success"
       /\ result.response = raw_response
       /\ Inspected("fidelity_score") = None
       /\ Inspected("source_citation") = None
       /\ detailed_metadata =>
             result.guardrails.output_validation.validation_result = "no_context_found"
       /\ ~Logged("no_source_citation")
       /\ ~Logged("low_fidelity")

C28_Witness ==
    /\ OutputChecked
    /\ HoldsNotFoundSentence
    /\ raw_response # NO_CONTEXT_MESSAGE
    /\ SubSeq(raw_response, 1, Len(NOT_FOUND_MARKER)) # NOT_FOUND_MARKER
    /\ result.status = "success"
    /\ ~detailed_metadata
    /\ result.summary.fidelity_score = None

InputRecorded ==
    /\ calls.validate_query = 1
    /\ "guardrails" \in DOMAIN result
    /\ "input_validation" \in DOMAIN result.guardrails

\* C30: when validate_query accepts, the reason is empty and the sanitized
\* query is the trimmed raw query, of length 3 to 500 and without any
\* deny-list phrase in its lowercase form; when it rejects, the reason is not
\* empty; and the index and the prompt are given the sanitized query.
C30_ValidateQueryConsistent ==
    /\ InputRecorded =>
          LET v == result.guardrails.input_validation IN
          /\ v.valid =>
                /\ v.rejection_reason = <<>>
                /\ v.sanitized_query = Strip(query)
                /\ Len(v.sanitized_query) >= 3
                /\ Len(v.sanitized_query) <= 500
                /\ \A i \in 1..Len(injection_patterns) : ~Denied(i)
                /\ sanitized_query = v.sanitized_query
          /\ ~v.valid => v.rejection_reason # <<>> /\ Returned
    /\ index_query # None => index_query = Some(Strip(query))
    /\ prompt # None => prompt[1].question = Strip(query)

C30_Witness ==
    /\ InputRecorded
    /\ result.guardrails.input_validation.valid
    /\ query # Strip(query)
    /\ index_query = Some(Strip(query))
    /\ prompt # None
    /\ prompt[1].question = Strip(query)

\* the success result of a call run alone, for the accepted docs and the
\* output validator's outcome o
AloneSuccess(res, docs, o) ==
    LET full == ("sources" :> [i \in 1..Len(docs) |-> SourceOf(docs[i], Chars("Unknown"))])
                @@ ("status" :> "success") @@ ("response" :> o.response) @@ res
    IN  IF detailed_metadata THEN full
        ELSE [k \in (DOMAIN full \cup {"summary"}) \ {"guardrails"} |->
                 IF k = "summary"
                 THEN [chunks_used |-> Len(docs),
                       similarity_threshold |->
                           InitThreshold(threshold_mode, custom_threshold),
                       template_mode |-> template_mode,
                       fidelity_score |-> Get(o.metadata, "fidelity_score"),
                       source_citation |-> Get(o.metadata, "source_citation")]
                 ELSE full[k]]

\* the result of a call, once the index and the generator answered as they
\* did, for an input validation v and a retrieval r that passed both
AloneGenerated(res, v, r) ==
    LET ctx == _format_context(r.docs) IN
    IF Logged("generation_error")
    THEN Terminal(res, GENERATION_ERROR_PREFIX \o log[Len(log)][3], "generation_error")
    ELSE LET o == validate_response(raw_response, ctx, v.sanitized)
             generated == SetGuardrail(res, "generation",
                              [template_mode |-> template_mode,
                               context_length |-> Len(ctx)])
             validated == SetGuardrail(generated, "output_validation", o.metadata)
         IN  IF ~o.valid THEN Terminal(validated, o.response, "invalid_output")
             ELSE AloneSuccess(validated, r.docs, o)

\* ... for an input validation v that accepted the query
AloneRetrieved(res, v) ==
    LET r == retrieve_with_threshold(results, v.sanitized,
                 Some(InitThreshold(threshold_mode, custom_threshold)))
        retrieved == SetGuardrail(res, "retrieval", r.metadata)
    IN  IF Len(r.docs) < MIN_CHUNKS_REQUIRED
        THEN Terminal(retrieved, NO_CONTEXT_MESSAGE, "no_relevant_context")
        ELSE AloneGenerated(retrieved, v, r)

\* what the scheduled call returns when it runs alone on an instance
\* configured the same, with the arguments it was called with, the index
\* answering results and the generator raw_response (or failing as logged)
AloneResult ==
    LET v == validate_query(query)
        checked == SetGuardrail([query |-> query, guardrails |-> EmptyDict],
                       "input_validation",
                       [valid |-> v.valid, sanitized_query |-> v.sanitized,
                        rejection_reason |-> v.reason])
    IN  IF ~v.valid
        THEN Terminal(checked, REJECTED_PREFIX \o v.reason, "rejected_input")
        ELSE AloneRetrieved(checked, v)

\* a step of the program leaves the instance as it is, and changes the
\* suspended call's locals only by a switch, which saves the scheduled ones
NoSharedWrite ==
    /\ instance' = instance
    /\ suspended' # suspended => suspended' = Some(Locals)

\* C24: of two calls on one instance, interleaved step by step in any order,
\* each returns the result it returns when run alone with the same arguments
\* and the same answers of the index and the generator; no step of a call
\* touches the other call's locals, and none writes the instance
\* (threshold_mode, custom_threshold, similarity_threshold).
C24_ConcurrentCallsAreIndependent ==
    /\ [](Returned => result = AloneResult)
    /\ [][NoSharedWrite]_vars

\* one call has returned success while the other, called with another query,
\* waits for the generator
C24_Witness ==
    /\ Returned
    /\ result.status = "success"
    /\ suspended # None
    /\ suspended[1].pc = "llm_ready"
    /\ suspended[1].sanitized_query # sanitized_query
    /\ result = AloneResult

====
